---- MODULE Spec2Model ----
(***************************************************************************)
(* Model of src/app.py: ImprovedWalletRiskScorer.                          *)
(*                                                                         *)
(* Numbers.  The program computes in float64.  The model computes in       *)
(* fixed point: a real x is the integer x * ONE (thousandths), a division  *)
(* rounds down to the next thousandth.  ETH amounts are thousandths of an  *)
(* ETH, so a transaction's wei value is kept in units of 10^15 wei.        *)
(* The weighted score and the composite score are kept exactly, in units   *)
(* of 1 / WUNIT (a component in thousandths times a weight in hundredths). *)
(* Time is counted in whole days; a timestamp is a day number.             *)
(***************************************************************************)
EXTENDS Integers, Sequences, FiniteSets, TLC

\* ------------------------------------------------------------------ bounds
MaxWallets == 2     \* longest wallet_addresses list handed to the batch driver
MaxTxs == 3         \* longest transaction list the explorer holds for a wallet
MaxTicks == 1       \* days the clock may advance during a run
MaxBatch == 2       \* largest batch_size
MaxOver == 1        \* how far from 50 the lengths of the long probe lists go

\* -------------------------------------------------------------- arithmetic
ONE == 10 * 100                 \* 1.0 in thousandths
WUNIT == ONE * 100              \* 1.0 of the weighted score, 1 point of score
Day0 == 20 * 100                \* day number at which a run starts
RngMod == 4 * 4                 \* size of the modelled generator state space

Min(a, b) == IF a <= b THEN a ELSE b
Max(a, b) == IF a >= b THEN a ELSE b

RECURSIVE SumSeq(_)
SumSeq(s) == IF s = <<>> THEN 0 ELSE Head(s) + SumSeq(Tail(s))

RECURSIVE MaxSeq(_)
MaxSeq(s) == IF Len(s) = 1 THEN s[1] ELSE Max(Head(s), MaxSeq(Tail(s)))

RECURSIVE MinSeq(_)
MinSeq(s) == IF Len(s) = 1 THEN s[1] ELSE Min(Head(s), MinSeq(Tail(s)))

\* floor of the square root, by bisection on [lo, hi]
RECURSIVE SqrtIn(_, _, _)
SqrtIn(n, lo, hi) ==
    IF lo >= hi THEN lo
    ELSE LET mid == (lo + hi + 1) \div 2
         IN  IF mid * mid <= n THEN SqrtIn(n, mid, hi) ELSE SqrtIn(n, lo, mid - 1)
Sqrt(n) == SqrtIn(n, 0, Min(n, 46340))

\* np.mean: the mean of a non-empty list
Mean(s) == SumSeq(s) \div Len(s)

StdUncentred(s) ==
    LET sq == [i \in 1..Len(s) |-> (s[i] * s[i]) \div Len(s)]
    IN  Sqrt(SumSeq(sq))

\* np.std: population standard deviation
Std(s) ==
    LET m == Mean(s)
        sq == [i \in 1..Len(s) |-> (s[i] - m) * (s[i] - m)]
    IN  Sqrt(SumSeq(sq) \div Len(s))

\* ------------------------------------------------------- program constants
\* self.risk_weights, in hundredths
risk_weights ==
    [liquidation_risk |-> 25, volatility_risk |-> 20, concentration_risk |-> 15,
     activity_risk |-> 15, leverage_risk |-> 15, liquidity_risk |-> 10]

Components == DOMAIN risk_weights

max_transactions == 100

\* --------------------------------------------------- the random generator
\* numpy's global generator: np.random.seed(x) sets the state from x alone,
\* every draw returns a value decided by the state and advances the state.
Seed(x) == x % RngMod
Step(r) == (5 * r + 3) % RngMod

\* np.random.randint(lo, hi): an integer in lo .. hi-1
RandInt(r, lo, hi) == lo + (r * (hi - lo)) \div RngMod

\* np.random.normal(0, 0.05), in thousandths
Normal(r) == (((r * 7) % 11) - 5) * 50

\* hash(str(eth_balance)) % (2**32): Python salts str hashes once per process
PyHash(salt, x) == 31 * x + 7 * salt + (x \div 1000)

\* ------------------------------------------------------ feature extraction
\* _get_inactive_wallet_features
GetInactiveWalletFeatures(info) ==
    LET eth_balance == info.eth_balance
        total_tx_count == info.total_tx_count
        risk_modifier ==
            IF total_tx_count = 0 /\ eth_balance = 0 THEN 300
            ELSE IF total_tx_count = 0 /\ eth_balance > 0 THEN 600
            ELSE IF total_tx_count > 0 /\ eth_balance = 0 THEN 800
            ELSE 500
    IN  [eth_balance |-> eth_balance,
         total_tx_count |-> total_tx_count,
         is_active_wallet |-> FALSE,
         analyzed_transactions |-> 0,
         successful_transactions |-> 0,
         failed_transactions |-> 0,
         success_rate |-> 0,
         compound_transactions |-> 0,
         defi_transactions |-> 0,
         compound_ratio |-> 0,
         defi_ratio |-> 0,
         total_volume_eth |-> 0,
         avg_tx_value_eth |-> 0,
         max_tx_value_eth |-> 0,
         volume_volatility |-> 0,
         large_tx_count |-> 0,
         large_tx_ratio |-> 0,
         days_since_first_tx |-> 0,
         days_since_last_tx |-> 999,
         avg_monthly_frequency |-> 0,
         recent_activity_count |-> 0,
         activity_decline |-> ONE,
         wallet_maturity |-> 0,
         engagement_score |-> 0,
         volume_concentration |-> 0,
         inactive_risk_modifier |-> risk_modifier]

\* int(tx['timeStamp']) raises ValueError on a timestamp that is no number
ExtractRaises(txs) == \E i \in 1..Len(txs) : ~txs[i].ts_ok

\* extract_comprehensive_features, evaluated at clock value t (datetime.now())
ExtractComprehensiveFeatures(info, txs, t) ==
    IF txs = <<>> THEN GetInactiveWalletFeatures(info)
    ELSE
    LET total_transactions == Len(txs)
        positions == 1..Len(txs)
        successful == Cardinality({i \in positions : ~txs[i].isError})
        failed_txs == total_transactions - successful
        compound_txs == Cardinality({i \in positions : txs[i].is_compound})
        defi_txs == Cardinality({i \in positions : txs[i].is_defi})
        tx_values == [i \in positions |-> txs[i].value]
        total_volume == SumSeq(tx_values)
        tx_times == [i \in positions |-> txs[i].timeStamp]
        days_since_first_tx == t - MinSeq(tx_times)
        days_since_last_tx == t - MaxSeq(tx_times)
        avg_tx_frequency ==
            (total_transactions * ONE * 30) \div Max(days_since_first_tx, 1)
        large_tx_threshold == Max(Mean(tx_values) * 3, 100)
        large_transactions ==
            Cardinality({i \in positions : tx_values[i] > large_tx_threshold})
        recent_txs == Cardinality({i \in positions : tx_times[i] > t - 30})
        n1 == Max(total_transactions, 1)
    IN  [eth_balance |-> info.eth_balance,
         total_tx_count |-> info.total_tx_count,
         is_active_wallet |-> info.is_active,
         analyzed_transactions |-> total_transactions,
         successful_transactions |-> successful,
         failed_transactions |-> failed_txs,
         success_rate |-> (successful * ONE) \div n1,
         compound_transactions |-> compound_txs,
         defi_transactions |-> defi_txs,
         compound_ratio |-> (compound_txs * ONE) \div n1,
         defi_ratio |-> (defi_txs * ONE) \div n1,
         total_volume_eth |-> total_volume,
         avg_tx_value_eth |-> Mean(tx_values),
         max_tx_value_eth |-> MaxSeq(tx_values),
         volume_volatility |-> IF Len(tx_values) > 1 THEN Std(tx_values) ELSE 0,
         large_tx_count |-> large_transactions,
         large_tx_ratio |-> (large_transactions * ONE) \div n1,
         days_since_first_tx |-> days_since_first_tx,
         days_since_last_tx |-> days_since_last_tx,
         avg_monthly_frequency |-> avg_tx_frequency,
         recent_activity_count |-> recent_txs,
         activity_decline |->
             ONE - (recent_txs * ONE * ONE)
                       \div Max((total_transactions * ONE) \div 12, ONE),
         wallet_maturity |-> Min(ONE, (days_since_first_tx * ONE) \div 365),
         engagement_score |-> ((compound_txs + defi_txs) * ONE) \div n1,
         volume_concentration |->
             (MaxSeq(tx_values) * ONE) \div Max(total_volume, ONE)]

\* -------------------------------------------------------- risk components
\* features.get('is_active_wallet', True)
IsActiveFeatures(features) == features.is_active_wallet

\* max(0, min(1, x))
Clamp01(x) == Max(0, Min(ONE, x))

\* _calculate_inactive_wallet_risk, given the drawn variation
CalculateInactiveWalletRiskNoFloor(features, variation) ==
    LET eth_balance == features.eth_balance
        total_tx_count == features.total_tx_count
        base_risks ==
            IF total_tx_count = 0 /\ eth_balance = 0 THEN
                [liquidation_risk |-> 200, volatility_risk |-> 100,
                 concentration_risk |-> 300, activity_risk |-> 900,
                 leverage_risk |-> 100, liquidity_risk |-> 700]
            ELSE IF total_tx_count = 0 /\ eth_balance > 0 THEN
                [liquidation_risk |-> 300, volatility_risk |-> 200,
                 concentration_risk |-> 400, activity_risk |-> 800,
                 leverage_risk |-> 200,
                 liquidity_risk |-> (6 * (ONE - Min(ONE, eth_balance \div 10))) \div 10]
            ELSE IF total_tx_count > 0 /\ eth_balance = 0 THEN
                [liquidation_risk |-> 600, volatility_risk |-> 400,
                 concentration_risk |-> 500, activity_risk |-> 700,
                 leverage_risk |-> 400, liquidity_risk |-> 800]
            ELSE
                [liquidation_risk |-> 400, volatility_risk |-> 300,
                 concentration_risk |-> 400, activity_risk |-> 600,
                 leverage_risk |-> 300, liquidity_risk |-> 500]
    IN  [k \in Components |-> Min(ONE, base_risks[k] + variation)]

CalculateInactiveWalletRisk(features, variation) ==
    LET risk_modifier ==
            IF "inactive_risk_modifier" \in DOMAIN features
            THEN features.inactive_risk_modifier ELSE 500
        eth_balance == features.eth_balance
        total_tx_count == features.total_tx_count
        base_risks ==
            IF total_tx_count = 0 /\ eth_balance = 0 THEN
                [liquidation_risk |-> 200, volatility_risk |-> 100,
                 concentration_risk |-> 300, activity_risk |-> 900,
                 leverage_risk |-> 100, liquidity_risk |-> 700]
            ELSE IF total_tx_count = 0 /\ eth_balance > 0 THEN
                LET balance_factor == Min(ONE, eth_balance \div 10)
                IN  [liquidation_risk |-> 300, volatility_risk |-> 200,
                     concentration_risk |-> 400, activity_risk |-> 800,
                     leverage_risk |-> 200,
                     liquidity_risk |-> (6 * (ONE - balance_factor)) \div 10]
            ELSE IF total_tx_count > 0 /\ eth_balance = 0 THEN
                [liquidation_risk |-> 600, volatility_risk |-> 400,
                 concentration_risk |-> 500, activity_risk |-> 700,
                 leverage_risk |-> 400, liquidity_risk |-> 800]
            ELSE
                [liquidation_risk |-> 400, volatility_risk |-> 300,
                 concentration_risk |-> 400, activity_risk |-> 600,
                 leverage_risk |-> 300, liquidity_risk |-> 500]
    IN  [k \in Components |-> Clamp01(base_risks[k] + variation)]

\* calculate_improved_risk_components, the branch for active wallets
CalculateActiveRisk(f) ==
    LET liquidation_risk == Min(ONE,
            (3 * (ONE - f.success_rate)
             + 3 * Min(ONE, (f.days_since_last_tx * ONE) \div 90)
             + 2 * (ONE - f.engagement_score)
             + 2 * f.activity_decline) \div 10)
        volume_volatility_norm ==
            (f.volume_volatility * ONE) \div Max(f.avg_tx_value_eth, 10)
        volatility_risk == Min(ONE,
            (4 * Min(ONE, volume_volatility_norm)
             + 3 * f.large_tx_ratio
             + 3 * (ONE - Min(ONE, (f.analyzed_transactions * ONE) \div 50))) \div 10)
        concentration_risk == Min(ONE,
            (5 * f.volume_concentration
             + 3 * (ONE - f.engagement_score)
             + 2 * (ONE - Min(ONE, (f.analyzed_transactions * ONE) \div 30))) \div 10)
        activity_risk == Min(ONE,
            (4 * Min(ONE, (f.days_since_last_tx * ONE) \div 60)
             + 3 * (ONE - Min(ONE, f.avg_monthly_frequency \div 5))
             + 3 * f.activity_decline) \div 10)
        leverage_risk == Min(ONE,
            (4 * f.large_tx_ratio
             + 3 * (ONE - f.defi_ratio)
             + 3 * Min(ONE, (f.max_tx_value_eth * ONE)
                                \div Max(f.avg_tx_value_eth * 5, 100))) \div 10)
        liquidity_risk == Min(ONE,
            (3 * (ONE - Min(ONE, f.total_volume_eth \div 5))
             + 3 * Min(ONE, (f.days_since_last_tx * ONE) \div 45)
             + 2 * ((f.failed_transactions * ONE) \div Max(f.analyzed_transactions, 1))
             + 2 * (ONE - Min(ONE, (f.eth_balance * ONE) \div 100))) \div 10)
    IN  [liquidation_risk |-> liquidation_risk,
         volatility_risk |-> volatility_risk,
         concentration_risk |-> concentration_risk,
         activity_risk |-> activity_risk,
         leverage_risk |-> leverage_risk,
         liquidity_risk |-> liquidity_risk]

\* -------------------------------------------------------- composite score
RECURSIVE SumOver(_, _)
SumOver(f, S) ==
    IF S = {} THEN 0
    ELSE LET k == CHOOSE x \in S : TRUE IN f[k] + SumOver(f, S \ {k})

WeightedScoreUnweighted(rc) ==
    SumOver([k \in DOMAIN rc |-> rc[k] * 100], DOMAIN rc)

\* the weighted sum of calculate_composite_score, in units of 1/WUNIT
WeightedScore(rc) ==
    SumOver([k \in DOMAIN rc |-> rc[k] * risk_weights[k]], DOMAIN rc)

ScaledScoreBonusAdded(rc, features) ==
    IF ~IsActiveFeatures(features)
    THEN 200 * WUNIT + WeightedScore(rc) * 500
    ELSE WeightedScore(rc) * 800 + 100 * WUNIT
         + features.engagement_score * 100 * 100
         + features.wallet_maturity * 50 * 100

ScaledScoreModified(rc, features) ==
    IF ~IsActiveFeatures(features)
    THEN 200 * WUNIT + WeightedScore(rc) * 500
         + (IF "inactive_risk_modifier" \in DOMAIN features
            THEN features.inactive_risk_modifier ELSE 500) * 100
    ELSE WeightedScore(rc) * 800 + 100 * WUNIT
         - features.engagement_score * 100 * 100
         - features.wallet_maturity * 50 * 100

\* the score before the final clamp, in units of 1/WUNIT points
ScaledScore(rc, features) ==
    IF ~IsActiveFeatures(features)
    THEN 200 * WUNIT + WeightedScore(rc) * 500
    ELSE WeightedScore(rc) * 800 + 100 * WUNIT
         - features.engagement_score * 100 * 100
         - features.wallet_maturity * 50 * 100

CalculateCompositeScoreUnclamped(rc, features) == ScaledScore(rc, features)

\* calculate_composite_score
CalculateCompositeScore(rc, features) ==
    Max(0, Min(1000 * WUNIT, ScaledScore(rc, features)))

CategorizeRiskStrict(score) ==
    IF score < 150 * WUNIT THEN "Very Low"
    ELSE IF score < 350 * WUNIT THEN "Low"
    ELSE IF score < 550 * WUNIT THEN "Medium"
    ELSE IF score < 750 * WUNIT THEN "High"
    ELSE "Very High"

\* categorize_risk
CategorizeRisk(score) ==
    IF score <= 150 * WUNIT THEN "Very Low"
    ELSE IF score <= 350 * WUNIT THEN "Low"
    ELSE IF score <= 550 * WUNIT THEN "Medium"
    ELSE IF score <= 750 * WUNIT THEN "High"
    ELSE "Very High"

\* round(x, 2) of a score: hundredths of a point, ties to even
Round2(x) ==
    LET q == x \div 1000
        r == x % 1000
    IN  IF r > 500 \/ (r = 500 /\ q % 2 = 1) THEN q + 1 ELSE q

\* --------------------------------------------------------- the mock data
\* Wallet addresses are 1 .. 3.  AddrHex(a): the last eight characters of the
\* address are hexadecimal digits; AddrSuffix(a): their value.
Addresses == 1..3
AddrHex(a) == a # 3
AddrSuffix(a) == 24 * a + 24

\* personas of _generate_realistic_mock_data: tx_count range and
\* compound_ratio in tenths
personas ==
    <<[name |-> "inactive", lo |-> 0, hi |-> 5, compound_ratio |-> 0],
      [name |-> "new_user", lo |-> 5, hi |-> 20, compound_ratio |-> 1],
      [name |-> "casual_defi", lo |-> 20, hi |-> 60, compound_ratio |-> 3],
      [name |-> "active_trader", lo |-> 60, hi |-> 150, compound_ratio |-> 5],
      [name |-> "defi_native", lo |-> 100, hi |-> 300, compound_ratio |-> 7],
      [name |-> "whale", lo |-> 50, hi |-> 200, compound_ratio |-> 4]>>

\* np.random.choice(personas, p=[0.3, 0.2, 0.2, 0.15, 0.1, 0.05])
PersonaChoice(r) ==
    LET u == r * 100
    IN  IF u < 30 * RngMod THEN 1
        ELSE IF u < 50 * RngMod THEN 2
        ELSE IF u < 70 * RngMod THEN 3
        ELSE IF u < 85 * RngMod THEN 4
        ELSE IF u < 95 * RngMod THEN 5
        ELSE 6

\* the first pass through the loop body, from generator state r: it never
\* completes.  np.random.choice('0123456789abcdef') is handed a str, which
\* numpy takes for a 0-dimensional array, and raises ValueError("a must be
\* 1-dimensional or an integer"): for a transfer while the recipient
\* address is built, for a Compound or Uniswap transaction while the hash is
\* built.  The result is the generator state at the raise.
MockTx(r, compound_tx_count) ==
    LET r1 == Step(r)                           \* days_ago = randint(0, 365)
        is_compound == 0 < compound_tx_count
        \* a draw for the Compound address, or random() < 0.3
        is_defi == is_compound \/ r1 * 10 < 3 * RngMod
        r2 == Step(r1)
    IN  IF is_defi THEN Step(r2)                \* value_eth = lognormal(...)
        ELSE r2

\* _generate_realistic_mock_data for an address with a hexadecimal suffix:
\* the list returned or the fact that the call raised, and the state the
\* shared generator is left in
GenerateRealisticMockData(a) ==
    LET r0 == Seed(AddrSuffix(a))
        persona == personas[PersonaChoice(r0)]
        r1 == Step(r0)
        tx_count == RandInt(r1, persona.lo, persona.hi)
        compound_tx_count == (tx_count * persona.compound_ratio) \div 10
        r2 == Step(r1)
    IN  IF tx_count = 0
        THEN [raises |-> FALSE, txs |-> <<>>, rng |-> r2]
        ELSE [raises |-> TRUE, txs |-> <<>>, rng |-> MockTx(r2, compound_tx_count)]

\* ------------------------------------------------------------------ state
VARIABLES
    wallet_addresses,   \* argument of analyze_wallet_list_batch
    batch_size,         \* argument of analyze_wallet_list_batch
    has_key,            \* self.etherscan_api_key is set
    hashsalt,           \* the process's str-hash salt
    chain,              \* what the block explorer holds for each address
    now,                \* the clock, in days
    rng,                \* state of numpy's global generator
    bpc,                \* position in analyze_wallet_list_batch
    batch_start, idx,   \* loop variables: start of the batch, index within it
    results, batch_results,
    active_count, inactive_count, failed_count,
    pc,                 \* position in analyze_wallet
    wallet,             \* analyze_wallet's wallet_address
    basic_info, transactions, features, risk_components,
    risk_score, risk_category,
    raised, err,        \* a stage of this call raised; str(e)
    fetch_mode,         \* how the transaction request of this call ended
    extract_time,       \* datetime.now() as read by the extractor in this call
    regime,             \* the branch each stage of this call took, and the
                        \* variation drawn by the inactive algorithm
    result,             \* the record analyze_wallet returns
    evals               \* successful evaluations of this run: inputs and outputs

cfgvars == <<wallet_addresses, batch_size, has_key, hashsalt, chain>>
batchvars == <<batch_start, idx, results, batch_results,
               active_count, inactive_count, failed_count>>
histvars == <<fetch_mode, extract_time, regime>>
callvars == <<wallet, basic_info, transactions, features, risk_components,
              risk_score, risk_category, raised, err, result, histvars>>
vars == <<cfgvars, now, rng, bpc, batchvars, pc, callvars, evals>>

NoInfo == [eth_balance |-> 0, total_tx_count |-> 0, is_active |-> FALSE]
NoFeatures == [is_active_wallet |-> FALSE]
NoComponents == [k \in Components |-> 0]
NoResult == [analysis_status |-> "none"]
NoRegime == [features |-> "", components |-> "", scaling |-> "", variation |-> 0]

\* ---------------------------------------------------------------- inputs
Tx(v, ts, e, c, d, ok) ==
    [value |-> v, timeStamp |-> ts, isError |-> e, is_compound |-> c,
     is_defi |-> d, ts_ok |-> ok]

\* transactions an explorer (or a caller of the extractor) can hand over
TxSet ==
    {Tx(1000, Day0, FALSE, TRUE, FALSE, TRUE),
     Tx(50, Day0 - 45, TRUE, FALSE, FALSE, TRUE),
     Tx(8000, Day0 - 400, FALSE, FALSE, TRUE, TRUE),
     Tx(200, Day0, FALSE, FALSE, FALSE, FALSE)}

RECURSIVE SeqsUpTo(_, _)
SeqsUpTo(S, n) ==
    IF n = 0 THEN {<<>>}
    ELSE LET shorter == SeqsUpTo(S, n - 1)
         IN  shorter \cup {Append(q, x) : q \in shorter, x \in S}

BalanceSet == {0, 50, 20 * ONE}
TxCountSet == {0, 7}

ChainEntries ==
    [eth_balance : BalanceSet, total_tx_count : TxCountSet, txs : SeqsUpTo(TxSet, MaxTxs)]

\* three wallets of a fixed chain: an active wallet with recent transactions,
\* a drained wallet with a history, a wallet whose history has a bad timestamp
FixtureChain ==
    [a \in Addresses |->
        CASE a = 1 -> [eth_balance |-> 5 * ONE, total_tx_count |-> 7,
                       txs |-> <<Tx(1000, Day0, FALSE, TRUE, FALSE, TRUE),
                                 Tx(200, Day0 - 3, FALSE, FALSE, FALSE, TRUE)>>]
          [] a = 2 -> [eth_balance |-> 0, total_tx_count |-> 3,
                       txs |-> <<Tx(8000, Day0 - 400, TRUE, FALSE, TRUE, TRUE)>>]
          [] OTHER -> [eth_balance |-> 0, total_tx_count |-> 1,
                       txs |-> <<Tx(200, Day0, FALSE, FALSE, FALSE, FALSE)>>]]

InitRest ==
    /\ has_key \in BOOLEAN
    /\ now = Day0
    /\ rng = 0
    /\ bpc = "batch_head"
    /\ batch_start = 0 /\ idx = 0
    /\ results = <<>> /\ batch_results = <<>>
    /\ active_count = 0 /\ inactive_count = 0 /\ failed_count = 0
    /\ pc = "idle"
    /\ wallet = 0
    /\ basic_info = NoInfo /\ transactions = <<>> /\ features = NoFeatures
    /\ risk_components = NoComponents
    /\ risk_score = 0 /\ risk_category = ""
    /\ raised = FALSE /\ err = ""
    /\ result = NoResult
    /\ fetch_mode = "" /\ extract_time = 0 /\ regime = NoRegime
    /\ evals = <<>>

\* a batch run over a list of wallets of the fixed chain, in one process
Init ==
    /\ wallet_addresses \in SeqsUpTo(Addresses, MaxWallets)
    /\ batch_size \in 1..MaxBatch
    /\ chain = FixtureChain
    /\ hashsalt = 0
    /\ InitRest

\* the str-hash salts a process can start with (PYTHONHASHSEED is random
\* unless it is set)
HashSalts == 0..1

\* a run over at most one wallet, whose chain data ranges over ChainEntries,
\* in a process with either salt
InitScore ==
    /\ wallet_addresses \in SeqsUpTo(Addresses, 1)
    /\ batch_size = 50
    /\ \E e \in ChainEntries : chain = [a \in Addresses |-> e]
    /\ hashsalt \in HashSalts
    /\ InitRest

\* ---------------------------------------------------------- analyze_wallet
\* get_wallet_basic_info: the two requests answer, or the balance request
\* answers with a status other than '1', or the count request answers without
\* a 'result', or a request raises and the defaults are returned
BasicInfoModes == {"ok", "balance_status_0", "count_no_result", "exception"}

GetWalletBasicInfo(a, mode) ==
    IF mode = "exception" THEN [eth_balance |-> 0, total_tx_count |-> 0, is_active |-> FALSE]
    ELSE LET eth_balance == IF mode = "balance_status_0" THEN 0 ELSE chain[a].eth_balance
             total_tx_count == IF mode = "count_no_result" THEN 0 ELSE chain[a].total_tx_count
         IN  [eth_balance |-> eth_balance,
              total_tx_count |-> total_tx_count,
              is_active |-> total_tx_count > 0 /\ eth_balance > 0]

A_GetBasicInfo ==
    /\ pc = "get_basic_info"
    /\ \E mode \in BasicInfoModes : basic_info' = GetWalletBasicInfo(wallet, mode)
    /\ pc' = "fetch_transactions"
    /\ UNCHANGED <<cfgvars, now, rng, bpc, batchvars, wallet, transactions, features,
                   risk_components, risk_score, risk_category, raised, err, result,
                   histvars, evals>>

\* fetch_all_transactions: without an API key, or when the request or the
\* classification raises, the mock generator is called; it raises ValueError
\* on an address whose suffix is not hexadecimal and whenever it has at least
\* one transaction to generate, and the call of fetch_all_transactions then
\* raises too
FetchModes == {"ok", "no_transactions", "exception"}

Take(s, n) == SubSeq(s, 1, Min(Len(s), n))

A_FetchTransactions ==
    /\ pc = "fetch_transactions"
    /\ \E mode \in FetchModes :
         LET listed == Take(chain[wallet].txs, max_transactions)
             mock == ~has_key \/ mode = "exception"
             m == GenerateRealisticMockData(wallet)
         IN  /\ fetch_mode' = IF has_key THEN mode ELSE "no_key"
             /\ IF mock
                THEN IF ~AddrHex(wallet)
                     THEN /\ raised' = TRUE
                          /\ err' = "invalid literal for int() with base 16"
                          /\ pc' = "except"
                          /\ UNCHANGED <<transactions, rng>>
                     ELSE IF m.raises
                     THEN /\ raised' = TRUE
                          /\ err' = "a must be 1-dimensional or an integer"
                          /\ pc' = "except"
                          /\ rng' = m.rng
                          /\ UNCHANGED transactions
                     ELSE /\ transactions' = m.txs
                          /\ rng' = m.rng
                          /\ pc' = "extract_features"
                          /\ UNCHANGED <<raised, err>>
                ELSE /\ transactions' = IF mode = "ok" THEN listed ELSE <<>>
                     /\ pc' = "extract_features"
                     /\ UNCHANGED <<rng, raised, err>>
    /\ UNCHANGED <<cfgvars, now, bpc, batchvars, wallet, basic_info, features,
                   risk_components, risk_score, risk_category, result,
                   extract_time, regime, evals>>

A_ExtractFeaturesContinues ==
    /\ pc = "extract_features"
    /\ IF ExtractRaises(transactions)
       THEN /\ raised' = TRUE
            /\ err' = "invalid literal for int() with base 10"
            /\ features' = GetInactiveWalletFeatures(basic_info)
            /\ pc' = "risk_components"
            /\ UNCHANGED <<extract_time, regime>>
       ELSE /\ features' = ExtractComprehensiveFeatures(basic_info, transactions, now)
            /\ extract_time' = now
            /\ regime' = [regime EXCEPT !.features =
                              IF transactions = <<>> THEN "inactive" ELSE "active"]
            /\ pc' = "risk_components"
            /\ UNCHANGED <<raised, err>>
    /\ UNCHANGED <<cfgvars, now, rng, bpc, batchvars, wallet, basic_info, transactions,
                   risk_components, risk_score, risk_category, result, fetch_mode, evals>>

A_ExtractFeatures ==
    /\ pc = "extract_features"
    /\ IF ExtractRaises(transactions)
       THEN /\ raised' = TRUE
            /\ err' = "invalid literal for int() with base 10"
            /\ pc' = "except"
            /\ UNCHANGED <<features, extract_time, regime>>
       ELSE /\ features' = ExtractComprehensiveFeatures(basic_info, transactions, now)
            /\ extract_time' = now
            /\ regime' = [regime EXCEPT !.features =
                              IF transactions = <<>> THEN "inactive" ELSE "active"]
            /\ pc' = "risk_components"
            /\ UNCHANGED <<raised, err>>
    /\ UNCHANGED <<cfgvars, now, rng, bpc, batchvars, wallet, basic_info, transactions,
                   risk_components, risk_score, risk_category, result, fetch_mode, evals>>

\* np.random.seed(hash(str(eth_balance)) % 2**32): the state after seeding
SeededStateShared(r, salt, eth_balance) == r
SeededState(r, salt, eth_balance) == Seed(PyHash(salt, eth_balance))

\* calculate_improved_risk_components: the inactive branch seeds the shared
\* generator and draws the variation from it
A_RiskComponents ==
    /\ pc = "risk_components"
    /\ IF ~IsActiveFeatures(features)
       THEN LET r == SeededState(rng, hashsalt, features.eth_balance)
            IN  /\ risk_components' = CalculateInactiveWalletRisk(features, Normal(r))
                /\ rng' = Step(r)
                /\ regime' = [regime EXCEPT !.components = "inactive",
                                             !.variation = Normal(r)]
       ELSE /\ risk_components' = CalculateActiveRisk(features)
            /\ regime' = [regime EXCEPT !.components = "active"]
            /\ UNCHANGED rng
    /\ pc' = "composite_score"
    /\ UNCHANGED <<cfgvars, now, bpc, batchvars, wallet, basic_info, transactions,
                   features, risk_score, risk_category, raised, err, result,
                   fetch_mode, extract_time, evals>>

A_CompositeScore ==
    /\ pc = "composite_score"
    /\ risk_score' = CalculateCompositeScore(risk_components, features)
    /\ regime' = [regime EXCEPT !.scaling =
                      IF ~IsActiveFeatures(features) THEN "inactive" ELSE "active"]
    /\ pc' = "categorize"
    /\ UNCHANGED <<cfgvars, now, rng, bpc, batchvars, wallet, basic_info, transactions,
                   features, risk_components, risk_category, raised, err, result,
                   fetch_mode, extract_time, evals>>

\* the record of a successful analysis (round(x, 3) and round(x, 4) leave a
\* number of thousandths as it is)
SuccessRecord(a, score, category, f, rc) ==
    [wallet_address |-> a,
     risk_score |-> Round2(score),
     risk_category |-> category,
     eth_balance |-> f.eth_balance,
     total_tx_count |-> f.total_tx_count,
     analyzed_transactions |-> f.analyzed_transactions,
     compound_transactions |-> f.compound_transactions,
     defi_transactions |-> f.defi_transactions,
     success_rate |-> f.success_rate,
     days_since_last_tx |-> f.days_since_last_tx,
     engagement_score |-> f.engagement_score,
     is_active_wallet |-> f.is_active_wallet,
     analysis_status |-> "success",
     scores |-> rc]

\* the record of the except branch of analyze_wallet; 999 in hundredths
FailureRecord(a, e) ==
    [wallet_address |-> a, risk_score |-> 999 * 100, risk_category |-> "Analysis Failed",
     analysis_status |-> "failed", error_message |-> e]

A_Categorize ==
    /\ pc = "categorize"
    /\ risk_category' = CategorizeRisk(risk_score)
    /\ result' = SuccessRecord(wallet, risk_score, CategorizeRisk(risk_score),
                               features, risk_components)
    /\ evals' = Append(evals, [info |-> basic_info, txs |-> transactions, at |-> extract_time,
                               features |-> features, components |-> risk_components,
                               score |-> risk_score])
    /\ pc' = "returned"
    /\ UNCHANGED <<cfgvars, now, rng, bpc, batchvars, wallet, basic_info, transactions,
                   features, risk_components, risk_score, raised, err, histvars>>

A_ExceptPropagates ==
    /\ pc = "except"
    /\ pc' = "propagated"
    /\ UNCHANGED <<cfgvars, now, rng, bpc, batchvars, wallet, basic_info, transactions,
                   features, risk_components, risk_score, risk_category, raised, err,
                   result, histvars, evals>>

\* except Exception as e: the failure record is returned
A_Except ==
    /\ pc = "except"
    /\ result' = FailureRecord(wallet, err)
    /\ pc' = "returned"
    /\ UNCHANGED <<cfgvars, now, rng, bpc, batchvars, wallet, basic_info, transactions,
                   features, risk_components, risk_score, risk_category, raised, err,
                   histvars, evals>>

\* ----------------------------------------------- analyze_wallet_list_batch
total_wallets == Len(wallet_addresses)
batch_end == Min(batch_start + batch_size, total_wallets)
\* wallet_addresses[batch_start:batch_end]
batch_wallets == SubSeq(wallet_addresses, batch_start + 1, batch_end)

\* for batch_start in range(0, total_wallets, batch_size)
B_BatchHead ==
    /\ bpc = "batch_head"
    /\ IF batch_start < total_wallets
       THEN /\ batch_results' = <<>>
            /\ idx' = 0
            /\ bpc' = "wallet_head"
       ELSE /\ bpc' = "summary"
            /\ UNCHANGED <<batch_results, idx>>
    /\ UNCHANGED <<cfgvars, now, rng, batch_start, results, active_count, inactive_count,
                   failed_count, pc, callvars, evals>>

\* for i, wallet in enumerate(batch_wallets): result = self.analyze_wallet(wallet)
B_CallAnalyze ==
    /\ bpc = "wallet_head"
    /\ idx < Len(batch_wallets)
    /\ wallet' = batch_wallets[idx + 1]
    /\ pc' = "get_basic_info"
    /\ bpc' = "in_call"
    /\ basic_info' = NoInfo /\ transactions' = <<>> /\ features' = NoFeatures
    /\ risk_components' = NoComponents
    /\ risk_score' = 0 /\ risk_category' = ""
    /\ raised' = FALSE /\ err' = ""
    /\ result' = NoResult
    /\ fetch_mode' = "" /\ extract_time' = 0 /\ regime' = NoRegime
    /\ UNCHANGED <<cfgvars, now, rng, batchvars, evals>>

\* the record of the batch loop's own except branch
CriticalRecord(a, e) ==
    [wallet_address |-> a, risk_score |-> 999 * 100, risk_category |-> "Critical Error",
     analysis_status |-> "failed", error_message |-> e]

B_TallyFailedTwice ==
    /\ bpc = "in_call"
    /\ pc \in {"returned", "propagated"}
    /\ IF pc = "propagated"
       THEN /\ failed_count' = failed_count + 1
            /\ batch_results' = Append(batch_results, CriticalRecord(wallet, err))
            /\ UNCHANGED <<active_count, inactive_count>>
       ELSE /\ batch_results' = Append(batch_results, result)
            /\ IF result.analysis_status = "failed"
               THEN /\ failed_count' = failed_count + 1
                    /\ inactive_count' = inactive_count + 1
                    /\ UNCHANGED active_count
               ELSE IF result.is_active_wallet
               THEN /\ active_count' = active_count + 1
                    /\ UNCHANGED <<inactive_count, failed_count>>
               ELSE /\ inactive_count' = inactive_count + 1
                    /\ UNCHANGED <<active_count, failed_count>>
    /\ idx' = idx + 1
    /\ pc' = "idle"
    /\ bpc' = "wallet_head"
    /\ UNCHANGED <<cfgvars, now, rng, batch_start, results, callvars, evals>>

\* the rest of the loop body, once analyze_wallet has returned (or raised)
B_Tally ==
    /\ bpc = "in_call"
    /\ pc \in {"returned", "propagated"}
    /\ IF pc = "propagated"
       THEN /\ failed_count' = failed_count + 1
            /\ batch_results' = Append(batch_results, CriticalRecord(wallet, err))
            /\ UNCHANGED <<active_count, inactive_count>>
       ELSE /\ batch_results' = Append(batch_results, result)
            /\ IF result.analysis_status = "failed"
               THEN /\ failed_count' = failed_count + 1
                    /\ UNCHANGED <<active_count, inactive_count>>
               ELSE IF result.is_active_wallet
               THEN /\ active_count' = active_count + 1
                    /\ UNCHANGED <<inactive_count, failed_count>>
               ELSE /\ inactive_count' = inactive_count + 1
                    /\ UNCHANGED <<active_count, failed_count>>
    /\ idx' = idx + 1
    /\ pc' = "idle"
    /\ bpc' = "wallet_head"
    /\ UNCHANGED <<cfgvars, now, rng, batch_start, results, callvars, evals>>

\* results.extend(batch_results), and on to the next batch
B_BatchEnd ==
    /\ bpc = "wallet_head"
    /\ idx >= Len(batch_wallets)
    /\ results' = results \o batch_results
    /\ batch_start' = batch_start + batch_size
    /\ bpc' = "batch_head"
    /\ UNCHANGED <<cfgvars, now, rng, idx, batch_results, active_count, inactive_count,
                   failed_count, pc, callvars, evals>>

\* the final summary divides by len(results), then the frame is returned
B_Summary ==
    /\ bpc = "summary"
    /\ bpc' = IF Len(results) = 0 THEN "raised" ELSE "returned"
    /\ UNCHANGED <<cfgvars, now, rng, batchvars, pc, callvars, evals>>

\* a day passes where the run sleeps: time.sleep(0.1) after the snapshot and
\* after the transaction fetch, time.sleep(0.3) at the end of the loop body
Tick ==
    /\ \/ pc \in {"fetch_transactions", "extract_features"}
       \/ bpc = "wallet_head" /\ idx > 0
    /\ now < Day0 + MaxTicks
    /\ now' = now + 1
    /\ UNCHANGED <<cfgvars, rng, bpc, batchvars, pc, callvars, evals>>

Next ==
    \/ B_BatchHead \/ B_CallAnalyze \/ B_Tally \/ B_BatchEnd \/ B_Summary
    \/ A_GetBasicInfo \/ A_FetchTransactions \/ A_ExtractFeatures
    \/ A_RiskComponents \/ A_CompositeScore \/ A_Categorize \/ A_Except
    \/ Tick

Spec == Init /\ [][Next]_vars
SpecScore == InitScore /\ [][Next]_vars

\* ------------------------------------------- categorize_risk called alone
\* scores a caller can pass: every quarter point of [0, 1000] and the
\* neighbours of the four thresholds
ProbeScores ==
    {k * (WUNIT \div 4) : k \in 0..(4 * 1000)}
      \cup {b * WUNIT + d : b \in {150, 350, 550, 750}, d \in {-1, 1}}

InitCat ==
    /\ wallet_addresses = <<>>
    /\ batch_size = 50
    /\ chain = FixtureChain
    /\ has_key = TRUE
    /\ hashsalt = 0
    /\ now = Day0
    /\ rng = 0
    /\ bpc = "idle"
    /\ batch_start = 0 /\ idx = 0
    /\ results = <<>> /\ batch_results = <<>>
    /\ active_count = 0 /\ inactive_count = 0 /\ failed_count = 0
    /\ pc = "probe"
    /\ wallet = 0
    /\ basic_info = NoInfo /\ transactions = <<>> /\ features = NoFeatures
    /\ risk_components = NoComponents
    /\ risk_score \in ProbeScores
    /\ risk_category = ""
    /\ raised = FALSE /\ err = ""
    /\ result = NoResult
    /\ fetch_mode = "" /\ extract_time = 0 /\ regime = NoRegime
    /\ evals = <<>>

CallCategorizeRisk ==
    /\ pc = "probe"
    /\ risk_category' = CategorizeRisk(risk_score)
    /\ pc' = "probed"
    /\ UNCHANGED <<cfgvars, now, rng, bpc, batchvars, wallet, basic_info, transactions,
                   features, risk_components, risk_score, raised, err, result,
                   histvars, evals>>

NextCat == CallCategorizeRisk

SpecCat == InitCat /\ [][NextCat]_vars

\* ------------------- the extractor and the component calculation called alone
\* transactions a caller can hand to extract_comprehensive_features: every
\* combination of the two flags, values from none to 7 ETH
ProbeTxs ==
    {Tx(v, ts, FALSE, c, d, TRUE) :
        v \in {0, 20, 1000, 7000}, ts \in {Day0, Day0 - 100}, c \in BOOLEAN, d \in BOOLEAN}

\* lists of one transaction repeated, short ones and ones of about 50, and
\* the same lists with the value of the first transaction raised by 0.5 ETH
ProbeLens == {1, 2} \cup ((50 - MaxOver)..(50 + MaxOver))
ProbeLists ==
    LET uniform == {[i \in 1..n |-> tx] : n \in ProbeLens, tx \in ProbeTxs}
    IN  uniform \cup {[l EXCEPT ![1].value = @ + 500] : l \in uniform}

\* snapshots as get_wallet_basic_info builds them
ProbeInfos ==
    {[eth_balance |-> b, total_tx_count |-> c, is_active |-> c > 0 /\ b > 0] :
        b \in BalanceSet, c \in TxCountSet}

InitExtract ==
    /\ wallet_addresses = <<>>
    /\ batch_size = 50
    /\ chain = FixtureChain
    /\ has_key = TRUE
    /\ hashsalt = 0
    /\ now = Day0
    /\ rng = 0
    /\ bpc = "idle"
    /\ batch_start = 0 /\ idx = 0
    /\ results = <<>> /\ batch_results = <<>>
    /\ active_count = 0 /\ inactive_count = 0 /\ failed_count = 0
    /\ pc = "extract_features"
    /\ wallet = 1
    /\ basic_info \in ProbeInfos
    /\ transactions \in ProbeLists
    /\ features = NoFeatures
    /\ risk_components = NoComponents
    /\ risk_score = 0 /\ risk_category = ""
    /\ raised = FALSE /\ err = ""
    /\ result = NoResult
    /\ fetch_mode = "" /\ extract_time = 0 /\ regime = NoRegime
    /\ evals = <<>>

NextExtract == A_ExtractFeatures \/ A_RiskComponents

SpecExtract == InitExtract /\ [][NextExtract]_vars

\* ================================================================= claims

\* the components of the current call have been computed
ComponentsComputed == pc \in {"composite_score", "categorize"}
\* the composite score of the current call has been computed
ScoreComputed == pc = "categorize" \/ (pc = "returned" /\ ~raised)

\* C1: each of the six risk components computed from an extracted feature
\* vector, by the active or the inactive algorithm, lies in [0,1].
C1_ComponentsInUnitInterval ==
    ComponentsComputed =>
        \A k \in Components : risk_components[k] >= 0 /\ risk_components[k] <= ONE

\* C2: a wallet goes through one regime end to end: the branch taken by the
\* extractor, the component algorithm and the scaling are the same one.
C2_OneRegime ==
    ScoreComputed =>
        /\ regime.features = regime.components
        /\ regime.features = regime.scaling

\* C3: the value returned by calculate_composite_score lies in [0,1000], and
\* so does the riskScore of every record with status success.
C3_ScoreInRange ==
    /\ ScoreComputed => risk_score >= 0 /\ risk_score <= 1000 * WUNIT
    /\ (pc = "returned" /\ result.analysis_status = "success") =>
           result.risk_score >= 0 /\ result.risk_score <= 1000 * 100

\* a call in which the final clamp of the score changed the scaled score
C3_Witness ==
    /\ pc = "returned"
    /\ result.analysis_status = "success"
    /\ ScaledScore(risk_components, features) < 0
    /\ result.risk_score = 0

\* C4: the weighted sum of the six components of a scored wallet lies in [0,1].
C4_WeightedScoreInUnitInterval ==
    ScoreComputed =>
        WeightedScore(risk_components) >= 0 /\ WeightedScore(risk_components) <= WUNIT

\* C5: categorize_risk maps every score of [0,1000] to exactly one of the
\* five categories, the buckets leave no gap and do not overlap, and each of
\* 150, 350, 550, 750 belongs to the lower of its two categories.
C5_CategoryBuckets ==
    pc = "probed" =>
        /\ risk_category \in {"Very Low", "Low", "Medium", "High", "Very High"}
        /\ (risk_category = "Very Low") = (risk_score <= 150 * WUNIT)
        /\ (risk_category = "Low") =
               (risk_score > 150 * WUNIT /\ risk_score <= 350 * WUNIT)
        /\ (risk_category = "Medium") =
               (risk_score > 350 * WUNIT /\ risk_score <= 550 * WUNIT)
        /\ (risk_category = "High") =
               (risk_score > 550 * WUNIT /\ risk_score <= 750 * WUNIT)
        /\ (risk_category = "Very High") = (risk_score > 750 * WUNIT)

\* a boundary score has been categorized into its lower category
C5_Witness ==
    /\ pc = "probed"
    /\ risk_score = 350 * WUNIT
    /\ risk_category = "Low"

\* C6: analyze_wallet never lets an exception out: when a stage raised, the
\* call returns the record with score 999, category "Analysis Failed", status
\* failed and the message; when none raised, a record with status success.
C6_NoExceptionEscapes ==
    /\ pc # "propagated"
    /\ pc = "returned" =>
           IF raised
           THEN /\ result.risk_score = 999 * 100
                /\ result.risk_category = "Analysis Failed"
                /\ result.analysis_status = "failed"
                /\ result.error_message = err
                /\ result.wallet_address = wallet
           ELSE result.analysis_status = "success"

\* a call in which a stage raised has returned its record
C6_Witness ==
    /\ pc = "returned"
    /\ raised
    /\ result.analysis_status = "failed"

\* C7: analyze_wallet_list_batch ends by returning, for every list (the empty
\* one included) and every batch size, one record per address in input order.
C7_OneRecordPerAddress ==
    /\ bpc # "raised"
    /\ bpc = "returned" =>
           /\ Len(results) = Len(wallet_addresses)
           /\ \A i \in 1..Len(results) :
                  results[i].wallet_address = wallet_addresses[i]

C9_EmptyAfterFailedFetch ==
    fetch_mode = "exception" => (~raised /\ transactions = <<>>)

\* the base risks of section 4.3, by (totalTxCount == 0, ethBalance == 0)
C10_Base(f) ==
    IF f.total_tx_count = 0 /\ f.eth_balance = 0
    THEN <<200, 100, 300, 900, 100, 700>>
    ELSE IF f.total_tx_count = 0 /\ f.eth_balance > 0
    THEN <<300, 200, 400, 800, 200,
           (6 * (ONE - Min(ONE, f.eth_balance \div 10))) \div 10>>
    ELSE IF f.total_tx_count > 0 /\ f.eth_balance = 0
    THEN <<600, 400, 500, 700, 400, 800>>
    ELSE <<400, 300, 400, 600, 300, 500>>

C10_Order ==
    <<"liquidation_risk", "volatility_risk", "concentration_risk",
      "activity_risk", "leverage_risk", "liquidity_risk">>

\* C10: in the inactive algorithm every component is clamp(base + v, 0, 1)
\* for one perturbation v shared by the six components, base from the table.
\* (a shared v, when there is one, is the distance of some component from
\* its base or, every component being clamped, one of the extremes)
C10_InactiveComponents ==
    (ComponentsComputed /\ regime.components = "inactive") =>
        \E v \in {risk_components[C10_Order[m]] - C10_Base(features)[m] : m \in 1..6}
                     \cup {0 - ONE, ONE} :
            \A n \in 1..6 :
                risk_components[C10_Order[n]] =
                    Max(0, Min(ONE, C10_Base(features)[n] + v))

\* the inactive algorithm ran on a funded wallet without transactions and
\* the lower clamp acted on a component
C10_Witness ==
    /\ ComponentsComputed
    /\ regime.components = "inactive"
    /\ features.total_tx_count = 0
    /\ features.eth_balance > 0
    /\ risk_components.volatility_risk = 0

\* C11: a wallet scored with the inactive scaling (is_active_wallet false)
\* gets the score 200 + weightedScore * 500, and that score lies in
\* [200, 700], whatever variation was drawn.
C11_InactiveScore ==
    (ScoreComputed /\ ~IsActiveFeatures(features)) =>
        /\ risk_score = 200 * WUNIT + WeightedScore(risk_components) * 500
        /\ risk_score >= 200 * WUNIT
        /\ risk_score <= 700 * WUNIT

\* an inactive wallet has been scored with a variation other than zero
C11_Witness ==
    /\ ScoreComputed
    /\ ~IsActiveFeatures(features)
    /\ regime.variation # 0
    /\ risk_score > 200 * WUNIT

\* C12: the variation of the inactive algorithm is decided by the wallet's
\* ETH balance alone: an inactive evaluation receives the variation that any
\* evaluation of that balance receives, in whatever process it runs.
C12_PerturbationFromBalanceAlone ==
    (ComponentsComputed /\ regime.components = "inactive") =>
        \A salt \in HashSalts :
            regime.variation = Normal(SeededState(rng, salt, features.eth_balance))

\* C13: for a non-empty transaction list with positive total volume,
\* volume_concentration is max_tx_value / total_volume, also when the total
\* volume is below 1 ETH.
C13_VolumeConcentration ==
    (/\ pc = "risk_components"
     /\ regime.features = "active"
     /\ features.total_volume_eth > 0) =>
        features.volume_concentration =
            (features.max_tx_value_eth * ONE) \div features.total_volume_eth

\* C14: the engagement score extracted from a transaction list is a
\* fraction, 0 <= engagement_score <= 1, whatever the is_compound and is_defi
\* flags of the transactions, transactions flagged as both included.
C14_EngagementInUnitInterval ==
    pc = "risk_components" =>
        features.engagement_score >= 0 /\ features.engagement_score <= ONE

\* all transactions of the list carry the same value
UniformValues(txs) == \A i, j \in 1..Len(txs) : txs[i].value = txs[j].value

C15_Steps ==
    {<<"idle", "get_basic_info">>,
     <<"get_basic_info", "fetch_transactions">>,
     <<"fetch_transactions", "extract_features">>,
     <<"extract_features", "risk_components">>,
     <<"risk_components", "composite_score">>,
     <<"composite_score", "categorize">>,
     <<"categorize", "returned">>,
     <<"fetch_transactions", "except">>,
     <<"extract_features", "except">>,
     <<"except", "returned">>,
     <<"returned", "idle">>}

\* C15: within one analyze_wallet call the stages run at most once each, in
\* the order snapshot fetch, transaction fetch, feature extraction, component
\* calculation, composite scoring, categorization, each after the previous
\* one has completed; once a stage has raised, no later stage runs.
C15_StageOrder ==
    [][/\ pc' # pc => <<pc, pc'>> \in C15_Steps
       /\ raised' => pc' \in {"except", "returned", "idle"}]_vars

\* a call has gone through all six stages and returned
C15_Witness ==
    /\ pc = "returned"
    /\ ~raised
    /\ regime.scaling # ""
    /\ risk_category # ""

\* values of engagement_score and wallet_maturity to compare with
C16_Bonuses == {0, 250, 500, 750, ONE, 2 * ONE}

\* C16: for an active wallet the score is
\* clamp(weightedScore*800 + 100 - engagement*100 - maturity*50, 0, 1000),
\* and with the components held fixed a higher engagement_score or
\* wallet_maturity never gives a higher score.
C16_ActiveScaling ==
    (ScoreComputed /\ IsActiveFeatures(features)) =>
        /\ risk_score =
               Max(0, Min(1000 * WUNIT,
                   WeightedScore(risk_components) * 800 + 100 * WUNIT
                   - features.engagement_score * 10000
                   - features.wallet_maturity * 5000))
        /\ \A e2 \in C16_Bonuses, m2 \in C16_Bonuses :
               (e2 >= features.engagement_score /\ m2 >= features.wallet_maturity) =>
                   CalculateCompositeScore(risk_components,
                       [features EXCEPT !.engagement_score = e2,
                                        !.wallet_maturity = m2]) <= risk_score

\* an active wallet with some engagement got a score the clamp left alone
C16_Witness ==
    /\ ScoreComputed
    /\ IsActiveFeatures(features)
    /\ features.engagement_score > 0
    /\ risk_score > 0
    /\ risk_score < 1000 * WUNIT

\* the result records collected so far: those of the finished batches and,
\* inside a batch, those of the batch
C18_Collected ==
    IF bpc \in {"wallet_head", "in_call"} THEN results \o batch_results ELSE results

\* C18: active_count + inactive_count + failed_count is the number of
\* records collected so far, every record is counted in exactly one counter,
\* and failed_count is the number of records with analysis_status failed.
C18_CountersMatchRecords ==
    LET c == C18_Collected
        failed == {i \in 1..Len(c) : c[i].analysis_status = "failed"}
        active == {i \in 1..Len(c) : c[i].analysis_status # "failed" /\ c[i].is_active_wallet}
        inactive == {i \in 1..Len(c) : c[i].analysis_status # "failed" /\ ~c[i].is_active_wallet}
    IN  /\ active_count + inactive_count + failed_count = Len(c)
        /\ failed_count = Cardinality(failed)
        /\ active_count = Cardinality(active)
        /\ inactive_count = Cardinality(inactive)

\* a failed wallet and a scored wallet have been counted
C18_Witness ==
    /\ failed_count >= 1
    /\ active_count + inactive_count >= 1
    /\ Len(C18_Collected) >= 2

\* values of inactive_risk_modifier to compare with
C19_Modifiers == {0, 300, 500, 600, 800, ONE}

\* C19: inactive feature vectors that differ only in inactive_risk_modifier
\* get the same risk components, the same score and the same category.
C19_ModifierWithoutInfluence ==
    (/\ pc = "returned"
     /\ ~raised
     /\ regime.features = "inactive") =>
        \A mod \in C19_Modifiers :
            LET f2 == [features EXCEPT !.inactive_risk_modifier = mod]
                rc2 == CalculateInactiveWalletRisk(f2,
                           Normal(SeededState(rng, hashsalt, f2.eth_balance)))
                score2 == CalculateCompositeScore(rc2, f2)
            IN  /\ rc2 = risk_components
                /\ score2 = risk_score
                /\ CategorizeRisk(score2) = risk_category

\* an emptied wallet with a history (modifier 0.8) has been scored
C19_Witness ==
    /\ pc = "returned"
    /\ ~raised
    /\ regime.features = "inactive"
    /\ features.inactive_risk_modifier = 800
    /\ risk_category # ""

====
